---------------------------- MODULE Spec2Model ----------------------------
(***************************************************************************)
(* A model of KAssert: the assertion macros KASSERT, THROWING_KASSERT and  *)
(* THROWING_KASSERT_SPECIFIED, the level gate, the expression decomposer   *)
(* (Decomposer / LhsExpression / BinaryExpression / UnaryExpression), the  *)
(* evaluator evaluate_and_print_assertion and the text it writes.          *)
(*                                                                         *)
(* The statements of a single-threaded program use the variables up to     *)
(* query; threads and logger stay at their initial values there.           *)
(*                                                                         *)
(* A C++ value is a record [ty, v]: ty is "int" or "bool", v its integer   *)
(* value (a bool is 0 or 1).  An asserted expression is an unparenthesised *)
(* chain of operands and binary operators, [xs, os] with Len(os) =         *)
(* Len(xs) - 1, which the compiler groups by operator precedence.  Text is *)
(* a TLA+ string; a number is rendered by ToString.                        *)
(***************************************************************************)
EXTENDS Integers, Sequences, FiniteSets, TLC

VARIABLES
    hostLevel,      \* the host build's -DKASSERT_ASSERTION_LEVEL: "undef" or a number
    exceptionMode,  \* whether the host build defines KASSERT_EXCEPTION_MODE
    pc,             \* position of the running statement
    chk,            \* the check statement being executed (its macro arguments)
    evals,          \* how often each operand of the expression has been evaluated
    msgEvals,       \* how often the message argument has been evaluated
    result,         \* "none", or the verdict of the expression: "pass" / "fail"
    expanded,       \* whether the evaluator received an Expression node
    sink,           \* std::cerr: the sequence of texts flushed to it
    exc,            \* the exception thrown: [type, message, args], or NoExc
    query,          \* the last test of a level: KASSERT_ENABLED and assertion_enabled
    threads,        \* the threads of a program that checks in several threads
    logger          \* a kassert::Logger object used on its own

vars == <<hostLevel, exceptionMode, pc, chk, evals, msgEvals, result, expanded,
          sink, exc, query, threads, logger>>

-----------------------------------------------------------------------------
(* Bounds of the model. *)

\* operands are the ints 0..MaxInt and the two bools
MaxInt == 2
\* an asserted expression has at most MaxOperands operands
MaxOperands == 3
\* a std::vector operand has at most MaxLen elements
MaxLen == 2
\* a Logger object receives at most MaxCalls calls before it is destroyed
MaxCalls == 4

-----------------------------------------------------------------------------
(* Program constants. *)

KASSERT_ASSERTION_LEVEL_KTHROW == 10
KASSERT_ASSERTION_LEVEL_NORMAL == 30
kthrow == KASSERT_ASSERTION_LEVEL_KTHROW
normal == KASSERT_ASSERTION_LEVEL_NORMAL
\* the tests' custom levels
light == normal - 1
heavy == normal + 1
ASSERTION_LEVEL_LOWER_THAN_NORMAL == -10000
ASSERTION_LEVEL_HIGHER_THAN_NORMAL == 10000

-----------------------------------------------------------------------------
(* C++ values and the built-in operators. *)

IntV(n) == [ty |-> "int", v |-> n]
BoolV(b) == [ty |-> "bool", v |-> IF b THEN 1 ELSE 0]

Vals == {IntV(n) : n \in 0..MaxInt} \cup {BoolV(b) : b \in BOOLEAN}

\* operand types beyond int and bool: a type without operator<< (the tests'
\* CustomType), std::vector<T> and std::pair<K, V>
TInt == [k |-> "int"]
TCustom == [k |-> "custom"]
TVector(t) == [k |-> "vector", of |-> t]
TPair(a, b) == [k |-> "pair", a |-> a, b |-> b]

CustomV == [ty |-> "custom"]
VectorV(t, elems) == [ty |-> "vector", of |-> t, elems |-> elems]
PairV(a, b) == [ty |-> "pair", first |-> a, second |-> b]

RECURSIVE TypeOf(_)
TypeOf(x) ==
    CASE x.ty = "vector" -> TVector(x.of)
      [] x.ty = "pair"   -> TPair(TypeOf(x.first), TypeOf(x.second))
      [] OTHER           -> [k |-> x.ty]

\* the values of a type
RECURSIVE ValuesOf(_)
ValuesOf(t) ==
    CASE t.k = "int"    -> {IntV(n) : n \in 0..MaxInt}
      [] t.k = "bool"   -> {BoolV(b) : b \in BOOLEAN}
      [] t.k = "custom" -> {CustomV}
      [] t.k = "vector" ->
           {VectorV(t.of, es) : es \in UNION {[1..n -> ValuesOf(t.of)] : n \in 0..MaxLen}}
      [] t.k = "pair"   ->
           {PairV(a, b) : a \in ValuesOf(t.a), b \in ValuesOf(t.b)}

\* operator== of two operands: CustomType::operator== returns false, a
\* vector compares sizes and elements, a pair its two components
RECURSIVE ValEq(_, _)
ValEq(l, r) ==
    CASE l.ty = "custom" -> FALSE
      [] l.ty = "vector" ->
           /\ Len(l.elems) = Len(r.elems)
           /\ \A i \in 1..Len(l.elems) : ValEq(l.elems[i], r.elems[i])
      [] l.ty = "pair" -> ValEq(l.first, r.first) /\ ValEq(l.second, r.second)
      [] OTHER -> l.v = r.v

RelOps == {"<", "<=", ">", ">="}
EqOps == {"==", "!="}
BitOps == {"&", "|", "^"}
LogicOps == {"&&", "||"}
Ops == RelOps \cup EqOps \cup BitOps \cup LogicOps

\* contextual conversion of a built-in value to bool
ToBool(x) == x.v # 0

RECURSIVE BitAnd(_, _)
BitAnd(a, b) ==
    IF a = 0 \/ b = 0 THEN 0
    ELSE (IF a % 2 = 1 /\ b % 2 = 1 THEN 1 ELSE 0) + 2 * BitAnd(a \div 2, b \div 2)

RECURSIVE BitOr(_, _)
BitOr(a, b) ==
    IF a = 0 THEN b
    ELSE IF b = 0 THEN a
    ELSE (IF a % 2 = 1 \/ b % 2 = 1 THEN 1 ELSE 0) + 2 * BitOr(a \div 2, b \div 2)

RECURSIVE BitXor(_, _)
BitXor(a, b) ==
    IF a = 0 THEN b
    ELSE IF b = 0 THEN a
    ELSE (IF a % 2 # b % 2 THEN 1 ELSE 0) + 2 * BitXor(a \div 2, b \div 2)

\* the built-in operator op on two arithmetic values (bool operands are
\* promoted to int): a comparison yields a bool, a bitwise operator an int
BuiltinOp(op, l, r) ==
    CASE op = "==" -> BoolV(ValEq(l, r))
      [] op = "!=" -> BoolV(~ValEq(l, r))
      [] op = "<"  -> BoolV(l.v < r.v)
      [] op = "<=" -> BoolV(l.v <= r.v)
      [] op = ">"  -> BoolV(l.v > r.v)
      [] op = ">=" -> BoolV(l.v >= r.v)
      [] op = "&"  -> IntV(BitAnd(l.v, r.v))
      [] op = "|"  -> IntV(BitOr(l.v, r.v))
      [] op = "^"  -> IntV(BitXor(l.v, r.v))
      [] op = "&&" -> BoolV(ToBool(l) /\ ToBool(r))
      [] op = "||" -> BoolV(ToBool(l) \/ ToBool(r))

-----------------------------------------------------------------------------
(* Expressions as the compiler groups them. *)

\* binding strength of a binary operator: a smaller number binds tighter
Prec(op) ==
    CASE op \in RelOps -> 1
      [] op \in EqOps  -> 2
      [] op = "&"      -> 3
      [] op = "^"      -> 4
      [] op = "|"      -> 5
      [] op = "&&"     -> 6
      [] op = "||"     -> 7

Exprs ==
    UNION {[xs : [1..n -> Vals], os : [1..(n - 1) -> Ops]] : n \in 1..MaxOperands}

Leaf(i) == [k |-> "leaf", i |-> i]
Node(op, l, r) == [k |-> "bin", op |-> op, l |-> l, r |-> r]

\* the operator at which operands lo..hi split: the loosest one, and the last
\* of these since all binary operators group left to right
SplitAt(os, lo, hi) ==
    CHOOSE k \in lo..(hi - 1) :
        /\ \A j \in lo..(hi - 1) : Prec(os[j]) <= Prec(os[k])
        /\ \A j \in (k + 1)..(hi - 1) : Prec(os[j]) < Prec(os[k])

RECURSIVE ParseRange(_, _, _)
ParseRange(os, lo, hi) ==
    IF lo = hi THEN Leaf(lo)
    ELSE LET k == SplitAt(os, lo, hi)
         IN  Node(os[k], ParseRange(os, lo, k), ParseRange(os, k + 1, hi))

Parse(e) == ParseRange(e.os, 1, Len(e.xs))

RECURSIVE FirstLeaf(_)
FirstLeaf(t) == IF t.k = "leaf" THEN t.i ELSE FirstLeaf(t.l)

\* an operand may be a sub-expression that binds tighter than every binary
\* operator above: !x, x + n with a literal n, or a parenthesised expression
\* (e).  Operand is its value, which the built-in operators compute
NotV(x) == [ty |-> "not", of |-> x]
PlusV(x, n) == [ty |-> "plus", of |-> x, n |-> n]
ParenV(e) == [ty |-> "paren", of |-> e]

RECURSIVE Operand(_), NativeEval(_, _)
Operand(x) ==
    CASE x.ty = "not"   -> BoolV(~ToBool(x.of))
      [] x.ty = "plus"  -> IntV(x.of.v + x.n)
      [] x.ty = "paren" -> NativeEval(Parse(x.of), x.of.xs).val
      [] OTHER          -> x

\* evaluation counters of the operands
NoEvals(n) == [i \in 1..n |-> 0]
\* a variant in which reading an operand evaluates it twice
OneEval_Twice(n, i) == [j \in 1..n |-> IF j = i THEN 2 ELSE 0]

OneEval(n, i) == [j \in 1..n |-> IF j = i THEN 1 ELSE 0]
AddEvals(c, d) == [j \in DOMAIN c |-> c[j] + d[j]]

\* the built-in evaluation of a sub-expression: its value and the operands it
\* evaluated; && and || evaluate the right operand only when it decides
NativeEval(t, xs) ==
    IF t.k = "leaf" THEN [val |-> Operand(xs[t.i]), cnt |-> OneEval(Len(xs), t.i)]
    ELSE LET L == NativeEval(t.l, xs)
         IN  IF t.op = "&&" /\ ~ToBool(L.val) THEN [val |-> BoolV(FALSE), cnt |-> L.cnt]
             ELSE IF t.op = "||" /\ ToBool(L.val) THEN [val |-> BoolV(TRUE), cnt |-> L.cnt]
             ELSE LET R == NativeEval(t.r, xs)
                  IN  [val |-> BuiltinOp(t.op, L.val, R.val),
                       cnt |-> AddEvals(L.cnt, R.cnt)]

-----------------------------------------------------------------------------
(* Expression decomposition: Decomposer{} <= expression. *)

LhsExpression(x) == [ty |-> "Lhs", lhs |-> x]
BinaryExpression(res, lhs, op, rhs) ==
    [ty |-> "Bin", result |-> res, lhs |-> lhs, op |-> op, rhs |-> rhs]
UnaryExpression(x) == [ty |-> "Unary", lhs |-> x]

\* a variant in which BinaryExpression also overloads the relational operators
ChainOps_WithRelational == {"&", "|", "^", "==", "!=", "<", "<=", ">", ">="}

\* the operators a BinaryExpression overloads
ChainOps == {"&", "|", "^", "==", "!="}
\* the operators an LhsExpression overloads
CapturedOps == RelOps \cup EqOps \cup BitOps

\* a variant of the LhsExpression operators that stores the operands in the
\* opposite order
LhsExpression_op_Swapped(op, lhs, rhs) ==
    BinaryExpression(ToBool(BuiltinOp(op, lhs.lhs, rhs)), rhs, op, lhs.lhs)

\* operator op(LhsExpression&& lhs, RhsT const& rhs): the value of
\* lhs._lhs op rhs initialises the constructor's bool parameter
LhsExpression_op(op, lhs, rhs) ==
    BinaryExpression(ToBool(BuiltinOp(op, lhs.lhs, rhs)), lhs.lhs, op, rhs)

\* operator op(BinaryExpression&& lhs, RhsPrimeT const& rhs_prime)
BinaryExpression_op(op, lhs, rhs_prime) ==
    BinaryExpression(ToBool(BuiltinOp(op, BoolV(lhs.result), rhs_prime)),
                     lhs, op, rhs_prime)

\* LhsExpression::operator bool and BinaryExpression::operator bool, and the
\* contextual conversion of a built-in value
OperatorBool(p) ==
    CASE p.ty = "Lhs" -> ToBool(p.lhs)
      [] p.ty = "Bin" -> p.result
      [] OTHER        -> ToBool(p)

\* overload resolution for `l op r`, op not && or ||, where l may be a proxy
\* object: the proxy's own overload when it has one, and otherwise the
\* built-in operator on the proxy converted by its operator bool
ApplyOp(op, l, r) ==
    CASE l.ty = "Lhs" -> LhsExpression_op(op, l, r)
      [] l.ty = "Bin" /\ op \in ChainOps -> BinaryExpression_op(op, l, r)
      [] l.ty = "Bin" /\ op \notin ChainOps -> BuiltinOp(op, BoolV(l.result), r)
      [] OTHER -> BuiltinOp(op, l, r)

\* evaluation of Decomposer{} <= expression: the sub-expression t holds the
\* first operand, which operator<= wraps into an LhsExpression
RECURSIVE DecompEval(_, _)
DecompEval(t, xs) ==
    IF t.k = "leaf"
    THEN [val |-> LhsExpression(Operand(xs[t.i])), cnt |-> OneEval(Len(xs), t.i)]
    ELSE LET L == DecompEval(t.l, xs)
         IN  IF t.op = "&&" /\ ~OperatorBool(L.val)
             THEN [val |-> BoolV(FALSE), cnt |-> L.cnt]
             ELSE IF t.op = "||" /\ OperatorBool(L.val)
             THEN [val |-> BoolV(TRUE), cnt |-> L.cnt]
             ELSE LET R == NativeEval(t.r, xs)
                  IN  [val |-> IF t.op \in LogicOps
                               THEN BoolV(ToBool(R.val))
                               ELSE ApplyOp(t.op, L.val, R.val),
                       cnt |-> AddEvals(L.cnt, R.cnt)]

Decompose(e) == DecompEval(Parse(e), e.xs)

\* a variant of make_unary that wraps the operand converted to bool
LhsExpression_make_unary_AsBool(l) == UnaryExpression(BoolV(ToBool(l.lhs)))

\* LhsExpression::make_unary
LhsExpression_make_unary(l) == UnaryExpression(l.lhs)

\* a variant of finalize_expr without the overload for bool: a boolean is
\* wrapped like any other value
finalize_expr_NoBoolOverload(x) ==
    IF x.ty \in {"Bin", "Unary"} THEN x
    ELSE IF x.ty = "bool" THEN UnaryExpression(x)
    ELSE LhsExpression_make_unary(x)

\* a variant of finalize_expr that reduces an LhsExpression to its boolean
finalize_expr_LhsToBool(x) ==
    IF x.ty = "bool" THEN x
    ELSE IF x.ty \in {"Bin", "Unary"} THEN x
    ELSE BoolV(ToBool(x.lhs))

\* finalize_expr(bool) returns the boolean; the template turns an
\* LhsExpression into a UnaryExpression and passes an Expression through
finalize_expr(x) ==
    IF x.ty = "bool" THEN x
    ELSE IF x.ty \in {"Bin", "Unary"} THEN x
    ELSE LhsExpression_make_unary(x)

\* is_streamable_type<StreamT, ValueT>: whether an operator<< of the stream
\* accepts the value.  std::ostream takes the arithmetic types; Logger takes
\* what std::ostream takes (its member template) and every vector and pair
\* (the two free templates, whose declarations do not depend on the elements)
is_streamable_type(stream, t) ==
    CASE t.k \in {"int", "bool"}    -> TRUE
      [] t.k \in {"vector", "pair"} -> stream = "Logger"
      [] OTHER                      -> FALSE

\* whether `logger << value` instantiates for a value of type t: the bodies of
\* the vector and pair overloads apply << to the elements
RECURSIVE LoggerStreamCompiles(_)
LoggerStreamCompiles(t) ==
    CASE t.k = "vector" -> LoggerStreamCompiles(t.of)
      [] t.k = "pair"   -> LoggerStreamCompiles(t.a) /\ LoggerStreamCompiles(t.b)
      [] OTHER          -> is_streamable_type("Logger", t)

\* whether stringify_value instantiates for a value of type t
stringify_value_Compiles(t) ==
    is_streamable_type("Logger", t) => LoggerStreamCompiles(t)

\* whether Expression::stringify instantiates for an expression object
RECURSIVE stringify_Compiles(_)
stringify_Compiles(x) ==
    CASE x.ty = "Bin"   -> stringify_Compiles(x.lhs) /\ stringify_Compiles(x.rhs)
      [] x.ty = "Unary" -> stringify_Compiles(x.lhs)
      [] OTHER          -> stringify_value_Compiles(TypeOf(x))

\* the KASSERT statement compiles only if finalize_expr does (given a built-in
\* value that is not a bool the template is chosen and make_unary is missing)
\* and if the stringify of the Expression handed to the evaluator does
Compiles(e) ==
    LET d == Decompose(e).val
    IN  /\ d.ty # "int"
        /\ d.ty # "bool" => stringify_Compiles(finalize_expr(d))

\* a variant of Expression::result() in which a UnaryExpression compares its
\* value with true instead of converting it to bool
Expression_result_EqualsTrue(x) ==
    IF x.ty = "Unary" THEN x.lhs.v = 1 ELSE x.result

\* Expression::result()
Expression_result(x) ==
    IF x.ty = "Unary" THEN ToBool(x.lhs) ELSE x.result

-----------------------------------------------------------------------------
(* Text. *)

\* a variant of the logger's buffer without std::boolalpha
StreamValue_NoBoolalpha(x) == ToString(x.v)

\* operator<< of the logger's buffer: std::boolalpha is set, an int is
\* written in decimal
StreamValue(x) ==
    IF x.ty = "bool" THEN (IF x.v = 1 THEN "true" ELSE "false") ELSE ToString(x.v)

RECURSIVE Logger_stream(_), Logger_stream_elements(_, _), stringify_value(_)

\* a variant of the pair overload that writes no space after the comma
Logger_stream_PairNoSpace(x) ==
    CASE x.ty = "vector" -> "[" \o Logger_stream_elements(x.elems, 1) \o "]"
      [] x.ty = "pair" ->
           "(" \o Logger_stream(x.first) \o "," \o Logger_stream(x.second) \o ")"
      [] OTHER -> StreamValue(x)

\* a variant of stringify_value with another placeholder
stringify_value_OtherPlaceholder(x) ==
    CASE x.ty = "Bin" ->
           stringify_value(x.lhs) \o " " \o x.op \o " " \o stringify_value(x.rhs)
      [] x.ty = "Unary" -> stringify_value(x.lhs)
      [] OTHER -> IF is_streamable_type("Logger", TypeOf(x))
                  THEN Logger_stream(x)
                  ELSE "?"

\* logger << value: the member template for what std::ostream takes, and the
\* overloads for std::vector (elements from index i on, `first` being i = 1)
\* and std::pair
Logger_stream_elements(elems, i) ==
    IF i > Len(elems) THEN ""
    ELSE (IF i > 1 THEN ", " ELSE "") \o Logger_stream(elems[i])
         \o Logger_stream_elements(elems, i + 1)

Logger_stream(x) ==
    CASE x.ty = "vector" -> "[" \o Logger_stream_elements(x.elems, 1) \o "]"
      [] x.ty = "pair" ->
           "(" \o Logger_stream(x.first) \o ", " \o Logger_stream(x.second) \o ")"
      [] OTHER -> StreamValue(x)

\* stringify_value, BinaryExpression::stringify, UnaryExpression::stringify
stringify_value(x) ==
    CASE x.ty = "Bin" ->
           stringify_value(x.lhs) \o " " \o x.op \o " " \o stringify_value(x.rhs)
      [] x.ty = "Unary" -> stringify_value(x.lhs)
      [] OTHER -> IF is_streamable_type("Logger", TypeOf(x))
                  THEN Logger_stream(x)
                  ELSE "<?>"

\* the source text of the operands: the i-th operand is written as a variable
SrcNames == <<"a", "b", "c", "d", "e">>

\* the source text of the i-th operand
RECURSIVE ExprTextFrom(_, _)
OperandText(x, i) ==
    CASE x.ty = "not"   -> "!" \o SrcNames[i]
      [] x.ty = "plus"  -> SrcNames[i] \o " + " \o ToString(x.n)
      [] x.ty = "paren" -> "(" \o ExprTextFrom(x.of, 1) \o ")"
      [] OTHER          -> SrcNames[i]

\* #expression
ExprTextFrom(e, i) ==
    IF i = Len(e.xs) THEN OperandText(e.xs[i], i)
    ELSE OperandText(e.xs[i], i) \o " " \o e.os[i] \o " " \o ExprTextFrom(e, i + 1)

ExprText(e) == ExprTextFrom(e, 1)

\* KASSERT_KASSERT_HPP_SOURCE_LOCATION of the check statement
SourceLocation == [file |-> "test.cpp", row |-> 42, function |-> "void f()"]

Header(type, where) ==
    where.file \o ": In function '" \o where.function \o "':\n"
    \o where.file \o ":" \o ToString(where.row) \o ": FAILED " \o type \o "\n"

\* a variant of evaluate_and_print_assertion that writes the expansion before
\* the expression text
evaluate_and_print_assertion_ExpansionFirst(type, x, where, expr_str) ==
    IF x.ty = "bool"
    THEN [result |-> ToBool(x),
          out |-> IF ~ToBool(x)
                  THEN Header(type, where) \o "\t" \o expr_str \o "\n"
                  ELSE ""]
    ELSE [result |-> Expression_result(x),
          out |-> IF ~Expression_result(x)
                  THEN Header(type, where)
                       \o "with expansion:\n" \o "\t" \o stringify_value(x) \o "\n"
                       \o "\t" \o expr_str \o "\n"
                  ELSE ""]


\* a variant of evaluate_and_print_assertion that writes the header and the
\* expression text whatever the result
evaluate_and_print_assertion_WritesOnSuccess(type, x, where, expr_str) ==
    IF x.ty = "bool"
    THEN [result |-> ToBool(x),
          out |-> Header(type, where) \o "\t" \o expr_str \o "\n"]
    ELSE [result |-> Expression_result(x),
          out |-> Header(type, where) \o "\t" \o expr_str \o "\n"
                  \o (IF ~Expression_result(x)
                      THEN "with expansion:\n" \o "\t" \o stringify_value(x) \o "\n"
                      ELSE "")]

\* evaluate_and_print_assertion, both overloads: the value returned and the
\* text its logger flushes to std::cerr ("" when it constructs no logger)
evaluate_and_print_assertion(type, x, where, expr_str) ==
    IF x.ty = "bool"
    THEN [result |-> ToBool(x),
          out |-> IF ~ToBool(x)
                  THEN Header(type, where) \o "\t" \o expr_str \o "\n"
                  ELSE ""]
    ELSE [result |-> Expression_result(x),
          out |-> IF ~Expression_result(x)
                  THEN Header(type, where) \o "\t" \o expr_str \o "\n"
                       \o "with expansion:\n" \o "\t" \o stringify_value(x) \o "\n"
                  ELSE ""]

\* a variant of build_what that leaves out the function name
build_what_NoFunction(expression, where, message) ==
    "\n" \o where.file \o ":\n"
    \o where.file \o ": " \o ToString(where.row) \o ": FAILED ASSERTION\n"
    \o "\t" \o expression \o "\n" \o message \o "\n"

\* build_what
build_what(expression, where, message) ==
    "\n" \o where.file \o ": In function '" \o where.function \o "':\n"
    \o where.file \o ": " \o ToString(where.row) \o ": FAILED ASSERTION\n"
    \o "\t" \o expression \o "\n" \o message \o "\n"

-----------------------------------------------------------------------------
(* The level gate. *)

\* the host build passes -DKASSERT_ASSERTION_LEVEL=<value> or does not
Defined(n) == [defined |-> TRUE, value |-> n]
Undefined == [defined |-> FALSE, value |-> 0]
HostLevels == {Undefined, Defined(0), Defined(kthrow)}

\* the macro KASSERT_ASSERTION_LEVEL after the #ifndef block
KASSERT_ASSERTION_LEVEL ==
    IF hostLevel.defined THEN hostLevel.value ELSE KASSERT_ASSERTION_LEVEL_NORMAL

\* a variant of assertion_enabled that also admits the level just above the
\* active one
assertion_enabled_OneAbove(level) == level <= KASSERT_ASSERTION_LEVEL + 1

\* constexpr bool assertion_enabled(int level)
assertion_enabled(level) == level <= KASSERT_ASSERTION_LEVEL

\* a variant of KASSERT_ENABLED with a strict comparison
KASSERT_ENABLED_Strict(level) == level < KASSERT_ASSERTION_LEVEL

\* #define KASSERT_ENABLED(level) level <= KASSERT_ASSERTION_LEVEL, expanded
\* in an #if with an integer literal for level
KASSERT_ENABLED(level) == level <= KASSERT_ASSERTION_LEVEL

-----------------------------------------------------------------------------
(* The check statements. *)

\* levels given to KASSERT as its third argument
CheckLevels == {kthrow, normal, heavy}
\* levels tested with KASSERT_ENABLED and assertion_enabled
QueryLevels ==
    {-2147483647 - 1, ASSERTION_LEVEL_LOWER_THAN_NORMAL, -1, 0, 1, kthrow - 1,
     kthrow, kthrow + 1, light, normal, heavy, ASSERTION_LEVEL_HIGHER_THAN_NORMAL,
     2147483647}
\* message arguments
Msgs == {"oops"}
\* the exception types of the tests, with the extra constructor arguments
CustomExceptions ==
    {[type |-> "ZeroCustomArgException", args |-> <<>>],
     [type |-> "SingleCustomArgException", args |-> <<43>>]}

NoCheck ==
    [form |-> "none", expr |-> [xs |-> <<>>, os |-> <<>>], msg |-> "", level |-> 0,
     etype |-> "", args |-> <<>>]
NoExc == [type |-> "none", message |-> "", args |-> <<>>]
NoQuery == [asked |-> FALSE, level |-> 0, pp |-> FALSE, fn |-> FALSE]
\* no thread besides the main one, and no Logger object of the caller
NoThreads == <<>>
NoLogger == [alive |-> FALSE, buffer |-> "", streamed |-> "", last |-> "none",
             calls |-> 0]

\* what() of an exception object: KassertException returns the text it was
\* constructed with, the tests' exception types return their own name
ExceptionWhat(e) ==
    IF e.type = "kassert::KassertException" THEN e.message ELSE e.type

Init ==
    /\ threads = NoThreads
    /\ logger = NoLogger
    /\ hostLevel \in HostLevels
    /\ exceptionMode \in BOOLEAN
    /\ pc = "idle"
    /\ chk = NoCheck
    /\ evals = <<>>
    /\ msgEvals = 0
    /\ result = "none"
    /\ expanded = FALSE
    /\ sink = <<>>
    /\ exc = NoExc
    /\ query = NoQuery

\* KASSERT(expression, message, level): KASSERT_KASSERT_HPP_KASSERT_IMPL up to
\* the test of evaluate_and_print_assertion's return value
KASSERT(expression, message, level) ==
    /\ pc = "idle"
    /\ Compiles(expression)
    /\ chk' = [form |-> "KASSERT", expr |-> expression, msg |-> message,
               level |-> level, etype |-> "ASSERTION", args |-> <<>>]
    /\ IF assertion_enabled(level)
       THEN LET d == Decompose(expression)
                x == finalize_expr(d.val)
                r == evaluate_and_print_assertion("ASSERTION", x, SourceLocation,
                                                  ExprText(expression))
            IN  /\ evals' = d.cnt
                /\ result' = IF r.result THEN "pass" ELSE "fail"
                /\ expanded' = (x.ty # "bool")
                /\ sink' = IF r.result THEN sink ELSE Append(sink, r.out)
                /\ pc' = IF r.result THEN "returned" ELSE "failed"
       ELSE /\ evals' = NoEvals(Len(expression.xs))
            /\ result' = "none"
            /\ expanded' = FALSE
            /\ sink' = sink
            /\ pc' = "returned"
    /\ UNCHANGED <<hostLevel, exceptionMode, msgEvals, exc, query>>
    /\ UNCHANGED <<threads, logger>>

\* a variant that evaluates the message argument twice
KassertMessage_StreamsTwice ==
    /\ pc = "failed"
    /\ msgEvals' = msgEvals + 2
    /\ sink' = Append(sink, chk.msg \o "\n")
    /\ pc' = "abort"
    /\ UNCHANGED <<hostLevel, exceptionMode, chk, evals, result, expanded, exc, query>>
    /\ UNCHANGED <<threads, logger>>

\* kassert::Logger<std::ostream&>(std::cerr) << message << "\n";
KassertMessage ==
    /\ pc = "failed"
    /\ msgEvals' = msgEvals + 1
    /\ sink' = Append(sink, chk.msg \o "\n")
    /\ pc' = "abort"
    /\ UNCHANGED <<hostLevel, exceptionMode, chk, evals, result, expanded, exc, query>>
    /\ UNCHANGED <<threads, logger>>

\* a variant in which std::abort() returns to the caller
Abort_Returns ==
    /\ pc = "abort"
    /\ pc' = "returned"
    /\ UNCHANGED <<hostLevel, exceptionMode, chk, evals, msgEvals, result, expanded,
                   sink, exc, query>>
    /\ UNCHANGED <<threads, logger>>

\* std::abort();
Abort ==
    /\ pc = "abort"
    /\ pc' = "aborted"
    /\ UNCHANGED <<hostLevel, exceptionMode, chk, evals, msgEvals, result, expanded,
                   sink, exc, query>>
    /\ UNCHANGED <<threads, logger>>

\* a variant of the throwing checks that is gated in exception mode too
ThrowingEnabled_GatedAlways == assertion_enabled(kthrow)

\* whether KASSERT_KASSERT_HPP_THROWING_KASSERT_IMPL_INTERNAL tests its
\* expression: always in exception mode, under if constexpr
\* (assertion_enabled(kthrow)) in abort mode
ThrowingEnabled == exceptionMode \/ assertion_enabled(kthrow)

\* KASSERT_KASSERT_HPP_THROWING_KASSERT_IMPL_INTERNAL up to the test of
\* !(expression), in exception mode and in abort mode
ThrowingImpl(form, expression, message, exception_type, args) ==
    /\ pc = "idle"
    /\ chk' = [form |-> form, expr |-> expression, msg |-> message,
               level |-> kthrow, etype |-> exception_type, args |-> args]
    /\ expanded' = FALSE
    /\ IF ThrowingEnabled
       THEN LET n == NativeEval(Parse(expression), expression.xs)
            IN  /\ evals' = n.cnt
                /\ result' = IF ToBool(n.val) THEN "pass" ELSE "fail"
                /\ pc' = IF ToBool(n.val) THEN "returned" ELSE "throwing"
       ELSE /\ evals' = NoEvals(Len(expression.xs))
            /\ result' = "none"
            /\ pc' = "returned"
    /\ UNCHANGED <<hostLevel, exceptionMode, msgEvals, sink, exc, query>>
    /\ UNCHANGED <<threads, logger>>

\* THROWING_KASSERT(expression, message)
THROWING_KASSERT(expression, message) ==
    ThrowingImpl("THROWING_KASSERT", expression, message,
                 "kassert::KassertException", <<>>)

\* THROWING_KASSERT_SPECIFIED(expression, message, exception_type, ...)
THROWING_KASSERT_SPECIFIED(expression, message, exception_type, args) ==
    ThrowingImpl("THROWING_KASSERT_SPECIFIED", expression, message,
                 exception_type, args)

\* a variant of the throwing checks that logs and aborts in exception mode too
ThrowingFail_AlwaysAborts ==
    /\ pc = "throwing"
    /\ msgEvals' = msgEvals + 1
    /\ LET e == [type |-> chk.etype,
                 message |-> build_what(ExprText(chk.expr), SourceLocation, chk.msg),
                 args |-> chk.args]
       IN  /\ exc' = exc
           /\ sink' = Append(sink, ExceptionWhat(e) \o "\n")
           /\ pc' = "abort"
    /\ UNCHANGED <<hostLevel, exceptionMode, chk, evals, result, expanded, query>>
    /\ UNCHANGED <<threads, logger>>

\* the body of if (!(expression)): exception_type(build_what(...), ...) is
\* constructed, then thrown (exception mode) or its what() is logged (abort mode)
ThrowingFail ==
    /\ pc = "throwing"
    /\ msgEvals' = msgEvals + 1
    /\ LET e == [type |-> chk.etype,
                 message |-> build_what(ExprText(chk.expr), SourceLocation, chk.msg),
                 args |-> chk.args]
       IN  IF exceptionMode
           THEN /\ exc' = e
                /\ sink' = sink
                /\ pc' = "thrown"
           ELSE /\ exc' = exc
                /\ sink' = Append(sink, ExceptionWhat(e) \o "\n")
                /\ pc' = "abort"
    /\ UNCHANGED <<hostLevel, exceptionMode, chk, evals, result, expanded, query>>
    /\ UNCHANGED <<threads, logger>>

\* the caller's handler catches the exception
Catch ==
    /\ pc = "thrown"
    /\ pc' = "caught"
    /\ UNCHANGED <<hostLevel, exceptionMode, chk, evals, msgEvals, result, expanded,
                   sink, exc, query>>
    /\ UNCHANGED <<threads, logger>>

\* #if KASSERT_ENABLED(level) ... #endif, and assertion_enabled(level)
EnabledQuery(level) ==
    /\ pc = "idle"
    /\ query' = [asked |-> TRUE, level |-> level, pp |-> KASSERT_ENABLED(level),
                 fn |-> assertion_enabled(level)]
    /\ pc' = "queried"
    /\ UNCHANGED <<hostLevel, exceptionMode, chk, evals, msgEvals, result, expanded,
                   sink, exc>>
    /\ UNCHANGED <<threads, logger>>

\* control reaches the next statement of the caller
NextStatement ==
    /\ pc \in {"returned", "caught", "queried"}
    /\ pc' = "idle"
    /\ chk' = NoCheck
    /\ evals' = <<>>
    /\ msgEvals' = 0
    /\ result' = "none"
    /\ expanded' = FALSE
    /\ exc' = NoExc
    /\ query' = NoQuery
    /\ UNCHANGED <<hostLevel, exceptionMode, sink>>
    /\ UNCHANGED <<threads, logger>>

\* a statement starts only when the previous one has returned
Idle == pc = "idle"

Next ==
    \/ Idle /\ \E e \in Exprs, m \in Msgs, l \in CheckLevels : KASSERT(e, m, l)
    \/ KassertMessage
    \/ Abort
    \/ Idle /\ \E e \in Exprs, m \in Msgs : THROWING_KASSERT(e, m)
    \/ Idle /\ \E e \in Exprs, m \in Msgs, x \in CustomExceptions :
                   THROWING_KASSERT_SPECIFIED(e, m, x.type, x.args)
    \/ ThrowingFail
    \/ Catch
    \/ Idle /\ \E l \in QueryLevels : EnabledQuery(l)
    \/ NextStatement

Spec == Init /\ [][Next]_vars

\* a statement that has started runs to its end: the steps of one check
\* statement follow each other in one thread
SpecLive ==
    /\ Init
    /\ [][Next]_vars
    /\ WF_vars(KassertMessage)
    /\ WF_vars(Abort)
    /\ WF_vars(ThrowingFail)

\* KASSERT on longer chains of int operands, in a build with the level of the
\* tests (-DKASSERT_ASSERTION_LEVEL=30) and without exception mode
IntVals == {IntV(n) : n \in 0..MaxInt}
DeepExprs == [xs : [1..(MaxOperands + 1) -> IntVals], os : [1..MaxOperands -> Ops]]

InitDeep ==
    /\ threads = NoThreads
    /\ logger = NoLogger
    /\ hostLevel = Defined(normal)
    /\ exceptionMode = FALSE
    /\ pc = "idle"
    /\ chk = NoCheck
    /\ evals = <<>>
    /\ msgEvals = 0
    /\ result = "none"
    /\ expanded = FALSE
    /\ sink = <<>>
    /\ exc = NoExc
    /\ query = NoQuery

NextDeep ==
    \/ Idle /\ \E e \in DeepExprs, m \in Msgs : KASSERT(e, m, normal)
    \/ KassertMessage
    \/ Abort
    \/ NextStatement

SpecDeep == InitDeep /\ [][NextDeep]_vars

\* KASSERT(a == b) and KASSERT(a != b) on operands of the types of the
\* expansion tests and on containers of CustomType, in the tests' build
OperandTypes ==
    {TInt, TVector(TInt), TPair(TInt, TInt), TVector(TPair(TInt, TInt)),
     TPair(TVector(TInt), TInt), TPair(TInt, TVector(TInt)),
     TVector(TCustom), TPair(TCustom, TInt), TVector(TVector(TCustom)),
     TVector(TPair(TInt, TCustom))}

OperandExprs ==
    UNION {[xs : [1..2 -> ValuesOf(t)], os : [1..1 -> EqOps]] : t \in OperandTypes}
    \cup {[xs |-> <<CustomV, CustomV>>, os |-> <<"==">>]}
    \cup {[xs |-> <<CustomV, IntV(n)>>, os |-> <<"==">>] : n \in 0..MaxInt}

\* the build rejects a check statement whose expansion does not instantiate
CompileError(expression, message, level) ==
    /\ pc = "idle"
    /\ ~Compiles(expression)
    /\ chk' = [form |-> "KASSERT", expr |-> expression, msg |-> message,
               level |-> level, etype |-> "ASSERTION", args |-> <<>>]
    /\ pc' = "ill-formed"
    /\ UNCHANGED <<hostLevel, exceptionMode, evals, msgEvals, result, expanded,
                   sink, exc, query>>
    /\ UNCHANGED <<threads, logger>>

NextOperands ==
    \/ Idle /\ \E e \in OperandExprs, m \in Msgs : KASSERT(e, m, normal)
    \/ Idle /\ \E e \in OperandExprs, m \in Msgs : CompileError(e, m, normal)
    \/ KassertMessage
    \/ Abort
    \/ NextStatement

SpecOperands == InitDeep /\ [][NextOperands]_vars




\* KASSERT(l op r) in the tests' build, where l and r are ints, negations !x
\* or sums x + 1, and KASSERT(v) where v is a value or a parenthesised
\* expression
TightOperands ==
    IntVals \cup {NotV(x) : x \in IntVals} \cup {PlusV(x, 1) : x \in IntVals}
ParenExprs == [xs : [1..2 -> IntVals], os : [1..1 -> {"<", "==", "&&"}]]
TightExprs ==
    [xs : [1..2 -> TightOperands], os : [1..1 -> Ops]]
    \cup {[xs |-> <<v>>, os |-> <<>>] : v \in Vals \cup {ParenV(e) : e \in ParenExprs}}

NextTight ==
    \/ Idle /\ \E e \in TightExprs, m \in Msgs : KASSERT(e, m, normal)
    \/ KassertMessage
    \/ Abort
    \/ NextStatement

SpecTight == InitDeep /\ [][NextTight]_vars

-----------------------------------------------------------------------------
(* The macros with omitted arguments. *)

\* a variant of KASSERT_2 that passes kassert::assert::kthrow
KASSERT_2_AtKthrow(expression, message) == KASSERT(expression, message, kthrow)

\* #define KASSERT_2(expression, message) KASSERT_3(expression, message,
\* kassert::assert::normal); KASSERT_3 is the three-argument KASSERT above
KASSERT_2(expression, message) == KASSERT(expression, message, normal)

\* #define KASSERT_1(expression) KASSERT_2(expression, "")
KASSERT_1(expression) == KASSERT_2(expression, "")

\* #define THROWING_KASSERT_1(expression) THROWING_KASSERT_2(expression, "");
\* THROWING_KASSERT_2 is the two-argument THROWING_KASSERT above
THROWING_KASSERT_1(expression) == THROWING_KASSERT(expression, "")

\* expressions of at most two operands
ShortExprs ==
    UNION {[xs : [1..n -> Vals], os : [1..(n - 1) -> Ops]] : n \in 1..2}

NextDefaults ==
    \/ Idle /\ \E e \in ShortExprs : KASSERT_1(e)
    \/ Idle /\ \E e \in ShortExprs, m \in Msgs : KASSERT_2(e, m)
    \/ Idle /\ \E e \in ShortExprs, m \in Msgs, l \in CheckLevels : KASSERT(e, m, l)
    \/ Idle /\ \E e \in ShortExprs : THROWING_KASSERT_1(e)
    \/ Idle /\ \E e \in ShortExprs, m \in Msgs : THROWING_KASSERT(e, m)
    \/ KassertMessage
    \/ Abort
    \/ ThrowingFail
    \/ Catch
    \/ NextStatement

SpecDefaults == Init /\ [][NextDefaults]_vars


-----------------------------------------------------------------------------
(* A kassert::Logger<std::ostream&> on std::cerr, used by a caller.  The   *)
(* object is [alive, buffer, streamed, last, calls]: buffer is the text in *)
(* _out_buffer, streamed the text of all values given to operator<< so     *)
(* far, last the member called last.                                       *)

\* the characters the underlying stream has received
RECURSIVE Concat(_)
Concat(texts) == IF texts = <<>> THEN "" ELSE Head(texts) \o Concat(Tail(texts))

LoggerValues == Vals \cup {PairV(IntV(1), IntV(2)), VectorV(TInt, <<IntV(0), IntV(1)>>)}

\* a variant of flush() that does not reset the buffer
Logger_flush_KeepsBuffer(l, out) ==
    [logger |-> l, out |-> Append(out, l.buffer)]

\* void flush(): _out << _out_buffer.str() << std::flush;
\* _out_buffer.str(std::string{});
Logger_flush(l, out) ==
    [logger |-> [l EXCEPT !.buffer = ""], out |-> Append(out, l.buffer)]

\* explicit Logger(StreamT&& out)
Logger_ctor ==
    /\ pc = "idle"
    /\ logger = NoLogger
    /\ logger' = [NoLogger EXCEPT !.alive = TRUE, !.last = "ctor"]
    /\ UNCHANGED <<hostLevel, exceptionMode, pc, chk, evals, msgEvals, result,
                   expanded, sink, exc, query, threads>>

\* Logger::operator<<(ValueT&& value) and the overloads for vector and pair
Logger_operator_shl(value) ==
    /\ logger.alive
    /\ logger.calls < MaxCalls
    /\ logger' = [logger EXCEPT !.buffer = @ \o Logger_stream(value),
                                !.streamed = @ \o Logger_stream(value),
                                !.last = "<<",
                                !.calls = @ + 1]
    /\ UNCHANGED <<hostLevel, exceptionMode, pc, chk, evals, msgEvals, result,
                   expanded, sink, exc, query, threads>>

\* the caller calls flush()
Logger_flush_call ==
    /\ logger.alive
    /\ logger.calls < MaxCalls
    /\ LET f == Logger_flush(logger, sink)
       IN  /\ logger' = [f.logger EXCEPT !.last = "flush", !.calls = @ + 1]
           /\ sink' = f.out
    /\ UNCHANGED <<hostLevel, exceptionMode, pc, chk, evals, msgEvals, result,
                   expanded, exc, query, threads>>

\* StreamT&& stream(): flush(); return std::forward<StreamT>(_out);
Logger_stream_call ==
    /\ logger.alive
    /\ logger.calls < MaxCalls
    /\ LET f == Logger_flush(logger, sink)
       IN  /\ logger' = [f.logger EXCEPT !.last = "stream", !.calls = @ + 1]
           /\ sink' = f.out
    /\ UNCHANGED <<hostLevel, exceptionMode, pc, chk, evals, msgEvals, result,
                   expanded, exc, query, threads>>

\* ~Logger(): flush();
Logger_dtor ==
    /\ logger.alive
    /\ LET f == Logger_flush(logger, sink)
       IN  /\ logger' = [f.logger EXCEPT !.last = "dtor", !.alive = FALSE]
           /\ sink' = f.out
    /\ UNCHANGED <<hostLevel, exceptionMode, pc, chk, evals, msgEvals, result,
                   expanded, exc, query, threads>>

NextLogger ==
    \/ Logger_ctor
    \/ \E v \in LoggerValues : Logger_operator_shl(v)
    \/ Logger_flush_call
    \/ Logger_stream_call
    \/ Logger_dtor

SpecLogger == InitDeep /\ [][NextLogger]_vars

-----------------------------------------------------------------------------
(* KASSERT statements in two threads of one process, in the tests' build.  *)
(* A thread is [pc, expr, msg, wrote]; wrote lists the positions in the    *)
(* sink of the texts the thread's statement has flushed.                   *)

Threads == {1, 2}
ThreadOps == {"==", "<", "&&"}
ThreadExprs == [xs : [1..2 -> IntVals], os : [1..1 -> ThreadOps]]

IdleThread == [pc |-> "idle", expr |-> [xs |-> <<>>, os |-> <<>>], msg |-> "",
               wrote |-> <<>>]

InitThreads ==
    /\ hostLevel = Defined(normal)
    /\ exceptionMode = FALSE
    /\ pc = "idle"
    /\ chk = NoCheck
    /\ evals = <<>>
    /\ msgEvals = 0
    /\ result = "none"
    /\ expanded = FALSE
    /\ sink = <<>>
    /\ exc = NoExc
    /\ query = NoQuery
    /\ threads = [t \in Threads |-> IdleThread]
    /\ logger = NoLogger

\* std::abort() of one thread has ended the process
Terminated == \E t \in Threads : threads[t].pc = "aborted"

\* thread t executes KASSERT(expression, message) up to the test of the
\* evaluator's return value; the evaluator's Logger flushes its buffer to
\* std::cerr in one write when it is destroyed
ThreadKassert(t, expression, message) ==
    /\ ~Terminated
    /\ threads[t].pc = "idle"
    /\ Compiles(expression)
    /\ assertion_enabled(normal)
    /\ LET x == finalize_expr(Decompose(expression).val)
           r == evaluate_and_print_assertion("ASSERTION", x, SourceLocation,
                                             ExprText(expression))
       IN  IF r.result
           THEN /\ sink' = sink
                /\ threads' = [threads EXCEPT ![t] =
                                  [pc |-> "returned", expr |-> expression,
                                   msg |-> message, wrote |-> <<>>]]
           ELSE /\ sink' = Append(sink, r.out)
                /\ threads' = [threads EXCEPT ![t] =
                                  [pc |-> "failed", expr |-> expression,
                                   msg |-> message, wrote |-> <<Len(sink) + 1>>]]
    /\ UNCHANGED <<hostLevel, exceptionMode, pc, chk, evals, msgEvals, result,
                   expanded, exc, query, logger>>

\* thread t: kassert::Logger<std::ostream&>(std::cerr) << message << "\n";
ThreadKassertMessage(t) ==
    /\ ~Terminated
    /\ threads[t].pc = "failed"
    /\ sink' = Append(sink, threads[t].msg \o "\n")
    /\ threads' = [threads EXCEPT ![t].pc = "abort",
                                  ![t].wrote = Append(@, Len(sink) + 1)]
    /\ UNCHANGED <<hostLevel, exceptionMode, pc, chk, evals, msgEvals, result,
                   expanded, exc, query, logger>>

\* thread t: std::abort();
ThreadAbort(t) ==
    /\ ~Terminated
    /\ threads[t].pc = "abort"
    /\ threads' = [threads EXCEPT ![t].pc = "aborted"]
    /\ UNCHANGED <<hostLevel, exceptionMode, pc, chk, evals, msgEvals, result,
                   expanded, sink, exc, query, logger>>

\* thread t reaches its next statement
ThreadNextStatement(t) ==
    /\ ~Terminated
    /\ threads[t].pc = "returned"
    /\ threads' = [threads EXCEPT ![t] = IdleThread]
    /\ UNCHANGED <<hostLevel, exceptionMode, pc, chk, evals, msgEvals, result,
                   expanded, sink, exc, query, logger>>

NextThreads ==
    \/ \E t \in Threads, e \in ThreadExprs, m \in Msgs : ThreadKassert(t, e, m)
    \/ \E t \in Threads : ThreadKassertMessage(t)
    \/ \E t \in Threads : ThreadAbort(t)
    \/ \E t \in Threads : ThreadNextStatement(t)

SpecThreads == InitThreads /\ [][NextThreads]_vars

-----------------------------------------------------------------------------
(* Properties: vocabulary. *)

IsKassert == chk.form = "KASSERT"
IsThrowing == chk.form \in {"THROWING_KASSERT", "THROWING_KASSERT_SPECIFIED"}
\* positions on the way to std::abort() or to the caller's handler
FailurePcs == {"failed", "throwing", "abort", "aborted", "thrown", "caught"}
AbortPcs == {"failed", "abort", "aborted"}
\* the truth value of the checked expression as the language evaluates it
NativeTruth(e) == ToBool(NativeEval(Parse(e), e.xs).val)
\* the operator nodes of a grouped expression
RECURSIVE Nodes(_)
Nodes(t) == IF t.k = "leaf" THEN {} ELSE {t} \cup Nodes(t.l) \cup Nodes(t.r)
\* the first text of a failing KASSERT without and with an expansion
RawReport(e) == Header("ASSERTION", SourceLocation) \o "\t" \o ExprText(e) \o "\n"
ExpandedReport(e, expansion) ==
    RawReport(e) \o "with expansion:\n" \o "\t" \o expansion \o "\n"

-----------------------------------------------------------------------------
\* C1: a check of a single boolean-convertible value v at an enabled level
\* takes the failure path (towards abort, or towards the throw of a throwing
\* check in exception mode) if and only if bool(v) is false, and returns to
\* the caller if and only if bool(v) is true; and no check whose expression
\* evaluated to true is ever on the failure path.
C1_FailsIffValueIsFalse ==
    /\ (chk.form # "none" /\ Len(chk.expr.xs) = 1 /\ chk.level <= KASSERT_ASSERTION_LEVEL)
          => /\ (pc \in FailurePcs) <=> ~ToBool(chk.expr.xs[1])
             /\ (pc = "returned") <=> ToBool(chk.expr.xs[1])
    /\ result = "pass" => pc = "returned"

C1_Witness ==
    /\ IsKassert
    /\ chk.expr.xs = <<IntV(0)>>
    /\ chk.level = KASSERT_ASSERTION_LEVEL
    /\ pc = "aborted"

\* C2: a KASSERT whose level is strictly greater than the active level (and
\* likewise a throwing check in abort mode when kthrow is greater than the
\* active level) is a no-op: no operand of its expression is evaluated, its
\* message is not evaluated, nothing is written to the sink, nothing is
\* thrown and the statement returns, whatever the value of the expression.
C2_DisabledCheckIsNoOp ==
    ((IsKassert \/ (IsThrowing /\ ~exceptionMode)) /\ chk.level > KASSERT_ASSERTION_LEVEL)
       => /\ pc = "returned"
          /\ evals = NoEvals(Len(chk.expr.xs))
          /\ msgEvals = 0
          /\ result = "none"
          /\ sink = <<>>
          /\ exc = NoExc

C2_Witness ==
    /\ IsKassert
    /\ chk.level = KASSERT_ASSERTION_LEVEL + 1
    /\ ~NativeTruth(chk.expr)
    /\ pc = "returned"
    /\ evals = NoEvals(Len(chk.expr.xs))

\* C3: for every level L that is tested and every active level A,
\* assertion_enabled(L) is true exactly when L <= A, and KASSERT_ENABLED(L)
\* gives the same answer; so L = A is enabled and L = A + 1 is not.
C3_EnabledIffAtMostActive ==
    query.asked
       => /\ query.fn <=> (query.level <= KASSERT_ASSERTION_LEVEL)
          /\ query.pp <=> query.fn
          /\ query.level = KASSERT_ASSERTION_LEVEL => query.fn /\ query.pp
          /\ query.level = KASSERT_ASSERTION_LEVEL + 1 => ~query.fn /\ ~query.pp

C3_Witness ==
    /\ query.asked
    /\ query.level = KASSERT_ASSERTION_LEVEL
    /\ query.fn
    /\ query.pp

\* C4: when the host build does not set the assertion level, every check with
\* a level greater than 0 is disabled: a KASSERT (level normal included) and a
\* throwing check in abort mode never take the path to std::abort().
C4_UnsetLevelDisablesAll ==
    (~hostLevel.defined /\ (IsKassert \/ (IsThrowing /\ ~exceptionMode)) /\ chk.level > 0)
       => /\ pc \notin FailurePcs
          /\ result = "none"

\* C5 (as stated): a throwing check tests its expression if and only if
\* kthrow <= the active level, in exception mode as in abort mode; below that
\* it evaluates nothing and neither throws nor aborts.
C5_GatedInBothModes ==
    IsThrowing
       => /\ (result # "none") <=> (kthrow <= KASSERT_ASSERTION_LEVEL)
          /\ kthrow > KASSERT_ASSERTION_LEVEL
                => /\ evals = NoEvals(Len(chk.expr.xs))
                   /\ pc \notin FailurePcs

\* C5 (amended): a throwing check is gated at kthrow only in abort mode.  It
\* tests its expression if and only if exception mode is active or kthrow <=
\* the active level; when it tests, it fails exactly when the expression is
\* false; when it does not, it evaluates nothing, writes nothing and neither
\* throws nor aborts.
C5_GatedInAbortModeOnly ==
    IsThrowing
       => /\ (result # "none") <=> (exceptionMode \/ kthrow <= KASSERT_ASSERTION_LEVEL)
          /\ result # "none"
                => /\ evals[1] = 1
                   /\ (pc \in FailurePcs) <=> ~NativeTruth(chk.expr)
          /\ result = "none"
                => /\ evals = NoEvals(Len(chk.expr.xs))
                   /\ pc = "returned"
                   /\ msgEvals = 0
                   /\ sink = <<>>
                   /\ exc = NoExc

C5_Witness ==
    /\ IsThrowing
    /\ exceptionMode
    /\ kthrow > KASSERT_ASSERTION_LEVEL
    /\ pc = "thrown"
    /\ exc.type = chk.etype

\* C6: in an enabled KASSERT, wherever the expression holds l && r and l has
\* been evaluated, r is evaluated if and only if l is true, and for l || r if
\* and only if l is false; no operand is evaluated more than once.
C6_ShortCircuitPreserved ==
    (IsKassert /\ result # "none")
       => LET e == chk.expr
          IN  /\ \A i \in DOMAIN evals : evals[i] <= 1
              /\ \A n \in Nodes(Parse(e)) :
                    (n.op \in LogicOps /\ evals[FirstLeaf(n.l)] = 1)
                       => ((evals[FirstLeaf(n.r)] = 1)
                              <=> (ToBool(NativeEval(n.l, e.xs).val) = (n.op = "&&")))

\* C7: for an expression built with ==, !=, <, <=, >, >=, &, |, ^ only, the
\* verdict of an enabled KASSERT is the truth value of the expression as the
\* language evaluates it.
C7_VerdictIsNativeTruth ==
    (IsKassert /\ result # "none"
       /\ \A i \in DOMAIN chk.expr.os : chk.expr.os[i] \in CapturedOps)
       => ((result = "pass") <=> NativeTruth(chk.expr))

\* C8: a failing KASSERT(a op b) with op one of ==, !=, <, <=, >, >= reports
\* the expansion "<a> <op> <b>": the rendering of a, a space, the operator as
\* written, a space, the rendering of b.
C8_RelationRendersOperands ==
    (IsKassert /\ Len(chk.expr.xs) = 2 /\ pc \in AbortPcs
       /\ chk.expr.os[1] \in RelOps \cup EqOps)
       => /\ expanded
          /\ sink[1] = ExpandedReport(chk.expr,
                          StreamValue(chk.expr.xs[1]) \o " " \o chk.expr.os[1]
                          \o " " \o StreamValue(chk.expr.xs[2]))

C8_Witness ==
    /\ IsKassert
    /\ chk.expr = [xs |-> <<IntV(1), IntV(2)>>, os |-> <<">">>]
    /\ pc = "aborted"
    /\ sink[1] = ExpandedReport(chk.expr, "1 > 2")

\* C9: a chain a op1 b op2 c that the language groups as (a op1 b) op2 c, with
\* op2 one of ==, !=, &, |, ^, has the verdict of (a op1 b) op2 c, and on
\* failure its expansion shows the three operand values, "a op1 b op2 c".
C9_ChainFoldsLeft ==
    (IsKassert /\ result # "none" /\ Len(chk.expr.xs) = 3
       /\ chk.expr.os[1] \in CapturedOps /\ chk.expr.os[2] \in ChainOps
       /\ Prec(chk.expr.os[1]) <= Prec(chk.expr.os[2]))
       => LET xs == chk.expr.xs
              os == chk.expr.os
          IN  /\ (result = "pass")
                    <=> ToBool(BuiltinOp(os[2], BuiltinOp(os[1], xs[1], xs[2]), xs[3]))
              /\ result = "fail"
                    => sink[1] = ExpandedReport(chk.expr,
                          StreamValue(xs[1]) \o " " \o os[1] \o " " \o StreamValue(xs[2])
                          \o " " \o os[2] \o " " \o StreamValue(xs[3]))

\* C10: every expression whose top-level operator is && or || compiles, and an
\* enabled KASSERT of it hands the evaluator a plain boolean: a failing one
\* writes the location header and the expression text without an expansion,
\* and then the caller's message.
C10_LogicalTopLevelIsRaw ==
    /\ pc = "idle"
          => \A e \in Exprs : (Len(e.xs) > 1 /\ Parse(e).op \in LogicOps) => Compiles(e)
    /\ (IsKassert /\ result # "none" /\ Len(chk.expr.xs) > 1
          /\ Parse(chk.expr).op \in LogicOps)
          => /\ ~expanded
             /\ (result = "fail") <=> (pc \in AbortPcs)
             /\ pc \in AbortPcs => sink[1] = RawReport(chk.expr)
             /\ pc \in {"abort", "aborted"}
                   => sink = <<RawReport(chk.expr), chk.msg \o "\n">>

C10_Witness ==
    /\ IsKassert
    /\ chk.expr = [xs |-> <<BoolV(FALSE), IntV(2)>>, os |-> <<"&&">>]
    /\ evals = <<1, 0>>
    /\ pc = "aborted"
    /\ sink = <<RawReport(chk.expr), chk.msg \o "\n">>

-----------------------------------------------------------------------------
(* Properties of the rendering of operands. *)

\* the rendering rule: a number in decimal, a value without rendering as the
\* placeholder, a sequence in brackets, a pair in parentheses
RECURSIVE RenderRule(_), JoinRule(_)
JoinRule(es) ==
    IF Len(es) = 0 THEN ""
    ELSE IF Len(es) = 1 THEN RenderRule(es[1])
    ELSE JoinRule(SubSeq(es, 1, Len(es) - 1)) \o ", " \o RenderRule(es[Len(es)])

RenderRule(x) ==
    CASE x.ty = "vector" -> "[" \o JoinRule(x.elems) \o "]"
      [] x.ty = "pair" -> "(" \o RenderRule(x.first) \o ", " \o RenderRule(x.second) \o ")"
      [] x.ty = "custom" -> "<?>"
      [] OTHER -> ToString(x.v)

\* whether a type is, or contains, the type without rendering
RECURSIVE HasCustom(_)
HasCustom(t) ==
    CASE t.k = "vector" -> HasCustom(t.of)
      [] t.k = "pair"   -> HasCustom(t.a) \/ HasCustom(t.b)
      [] OTHER          -> t.k = "custom"

IsContainer(x) == x.ty \in {"vector", "pair"}
\* the expansion the rule gives a check of two operands
RuleExpansion(e) == RenderRule(e.xs[1]) \o " " \o e.os[1] \o " " \o RenderRule(e.xs[2])

\* C11: a failing KASSERT of two operands built from ints, sequences and pairs
\* renders each operand by the rule: a sequence as "[" elements joined by ", "
\* "]" ("[]" when empty, no separator for one element), a pair as
\* "(first, second)", applied to nested sequences and pairs alike.
C11_SequencesAndPairsRender ==
    /\ pc = "idle"
          => /\ RenderRule(VectorV(TInt, <<>>)) = "[]"
             /\ RenderRule(VectorV(TInt, <<IntV(1)>>)) = "[1]"
             /\ RenderRule(VectorV(TInt, <<IntV(1), IntV(2)>>)) = "[1, 2]"
             /\ RenderRule(PairV(IntV(1), IntV(2))) = "(1, 2)"
    /\ (IsKassert /\ Len(chk.expr.xs) = 2 /\ IsContainer(chk.expr.xs[1])
          /\ ~HasCustom(TypeOf(chk.expr.xs[1])) /\ pc \in AbortPcs)
          => /\ expanded
             /\ sink[1] = ExpandedReport(chk.expr, RuleExpansion(chk.expr))

C11_Witness ==
    /\ IsKassert
    /\ pc = "aborted"
    /\ chk.expr.xs[1] = VectorV(TPair(TInt, TInt),
                                <<PairV(IntV(1), IntV(2)), PairV(IntV(1), IntV(0))>>)
    /\ chk.expr.xs[2] = VectorV(TPair(TInt, TInt), <<>>)
    /\ sink[1] = ExpandedReport(chk.expr, "[(1, 2), (1, 0)] == []")

\* C12: a KASSERT whose left operand has a type without rendering compiles and
\* fails like any other: the operand renders as "<?>", the other operand by
\* its own rule, the report is completed with the message and the process
\* aborts.
C12_UnrenderableIsPlaceholder ==
    (IsKassert /\ Len(chk.expr.xs) = 2 /\ chk.expr.xs[1].ty = "custom")
       => /\ pc \in AbortPcs
          /\ expanded
          /\ sink[1] = ExpandedReport(chk.expr,
                          "<?> == " \o (IF chk.expr.xs[2].ty = "custom" THEN "<?>"
                                        ELSE ToString(chk.expr.xs[2].v)))
          /\ pc \in {"abort", "aborted"} => sink[2] = chk.msg \o "\n"

C12_Witness ==
    /\ IsKassert
    /\ chk.expr.xs = <<CustomV, IntV(2)>>
    /\ pc = "aborted"
    /\ sink = <<ExpandedReport(chk.expr, "<?> == 2"), chk.msg \o "\n">>

\* C13: a KASSERT on sequences or pairs whose elements have no rendering is
\* never an error, and when it fails each such element renders as "<?>"
\* inside the brackets of its container, at every nesting depth.
C13_UnrenderableElements ==
    (IsKassert /\ Len(chk.expr.xs) = 2 /\ IsContainer(chk.expr.xs[1])
       /\ HasCustom(TypeOf(chk.expr.xs[1])))
       => /\ pc # "ill-formed"
          /\ pc \in AbortPcs => sink[1] = ExpandedReport(chk.expr, RuleExpansion(chk.expr))

-----------------------------------------------------------------------------
(* Properties of the failure report and of the two failure policies. *)

\* C14: the sink of a failing KASSERT holds, in this order and once each:
\* "<file>: In function '<function>':" newline, "<file>:<line>: FAILED
\* ASSERTION" newline, a tab, the expression text and a newline, then, exactly
\* when the evaluator was given an Expression, "with expansion:" newline, a
\* tab, the rendered expression and a newline; and after that the message and
\* a newline.
C14_ReportFragmentsInOrder ==
    (IsKassert /\ pc \in AbortPcs)
       => LET w == SourceLocation
              x == finalize_expr(Decompose(chk.expr).val)
              first == w.file \o ": In function '" \o w.function \o "':" \o "\n"
                       \o w.file \o ":" \o ToString(w.row) \o ": FAILED ASSERTION" \o "\n"
                       \o "\t" \o ExprText(chk.expr) \o "\n"
                       \o (IF expanded
                           THEN "with expansion:" \o "\n" \o "\t" \o stringify_value(x) \o "\n"
                           ELSE "")
          IN  /\ expanded <=> (x.ty \in {"Bin", "Unary"})
              /\ pc = "failed" => sink = <<first>>
              /\ pc \in {"abort", "aborted"} => sink = <<first, chk.msg \o "\n">>

C14_Witness ==
    /\ IsKassert
    /\ pc = "aborted"
    /\ expanded
    /\ sink = <<"test.cpp: In function 'void f()':\ntest.cpp:42: FAILED ASSERTION\n\ta == b\nwith expansion:\n\t1 == 2\n",
                "oops\n">>

C16_ThrowsRequestedType ==
    (IsThrowing /\ exceptionMode /\ result = "fail")
       => /\ pc \in {"throwing", "thrown", "caught"}
          /\ sink = <<>>
          /\ pc \in {"thrown", "caught"}
                => /\ exc.type = (IF chk.form = "THROWING_KASSERT"
                                  THEN "kassert::KassertException" ELSE chk.etype)
                   /\ exc.message = build_what(ExprText(chk.expr), SourceLocation, chk.msg)
                   /\ exc.args = chk.args
          /\ pc = "caught" => ENABLED NextStatement

C16_Witness ==
    /\ chk.form = "THROWING_KASSERT_SPECIFIED"
    /\ exceptionMode
    /\ pc = "caught"
    /\ exc.type = "SingleCustomArgException"
    /\ exc.args = <<43>>

\* C17: in exception mode the exception of a failing THROWING_KASSERT has a
\* what() that is the text it was constructed with, and that text holds the
\* file, the function name, the line number, the expression text and the
\* message.
C17_WhatHoldsLocationAndMessage ==
    (chk.form = "THROWING_KASSERT" /\ exceptionMode /\ pc \in {"thrown", "caught"})
       => LET w == SourceLocation
          IN  /\ ExceptionWhat(exc) = exc.message
              /\ ExceptionWhat(exc) =
                    "\n" \o w.file \o ": In function '" \o w.function \o "':\n"
                    \o w.file \o ": " \o ToString(w.row) \o ": FAILED ASSERTION\n"
                    \o "\t" \o ExprText(chk.expr) \o "\n" \o chk.msg \o "\n"

C17_Witness ==
    /\ chk.form = "THROWING_KASSERT"
    /\ exceptionMode
    /\ pc = "thrown"
    /\ chk.expr.os = <<"<">>
    /\ ExceptionWhat(exc) =
          "\ntest.cpp: In function 'void f()':\ntest.cpp: 42: FAILED ASSERTION\n\ta < b\noops\n"

\* C18: the description of the exception thrown in exception mode is character
\* for character the report the abort policy writes for an undecomposed check
\* with the same expression text, location and message: the evaluator's text
\* followed by the message and a newline.
C18_DescriptionEqualsReport ==
    (chk.form = "THROWING_KASSERT" /\ exceptionMode /\ pc \in {"thrown", "caught"})
       => ExceptionWhat(exc) =
             evaluate_and_print_assertion("ASSERTION", BoolV(FALSE), SourceLocation,
                                          ExprText(chk.expr)).out
             \o chk.msg \o "\n"

\* C19: in abort mode THROWING_KASSERT(expr, msg) acts as KASSERT(expr, msg,
\* kthrow) does: it tests its expression under the same condition, reaches the
\* same verdict, aborts on failure and has then written the same report, the
\* expansion of a decomposed expression included.
C19_ThrowingIsKassertAtKthrow ==
    (chk.form = "THROWING_KASSERT" /\ ~exceptionMode)
       => LET x == finalize_expr(Decompose(chk.expr).val)
              r == evaluate_and_print_assertion("ASSERTION", x, SourceLocation,
                                                ExprText(chk.expr))
          IN  /\ (result # "none") <=> assertion_enabled(kthrow)
              /\ result # "none" => ((result = "pass") <=> r.result)
              /\ result = "fail" => pc \in {"throwing", "abort", "aborted"}
              /\ pc = "aborted" => sink = <<r.out, chk.msg \o "\n">>

\* C20: the kind written after FAILED is ASSERTION for every KASSERT, and is
\* the exception type's identifier in the text built for a
\* THROWING_KASSERT_SPECIFIED, thrown in exception mode or logged in abort
\* mode.
C20_KindNamesExceptionType ==
    LET w == SourceLocation
        text(kind) ==
            "\n" \o w.file \o ": In function '" \o w.function \o "':\n"
            \o w.file \o ": " \o ToString(w.row) \o ": FAILED " \o kind \o "\n"
            \o "\t" \o ExprText(chk.expr) \o "\n" \o chk.msg \o "\n"
    IN  /\ (IsKassert /\ pc \in AbortPcs)
              => sink[1] \in {RawReport(chk.expr),
                              ExpandedReport(chk.expr,
                                  stringify_value(finalize_expr(Decompose(chk.expr).val)))}
        /\ (chk.form = "THROWING_KASSERT_SPECIFIED" /\ pc \in {"thrown", "caught"})
              => exc.message = text(chk.etype)
        /\ (chk.form = "THROWING_KASSERT_SPECIFIED" /\ pc \in {"abort", "aborted"})
              => sink = <<text(chk.etype) \o "\n">>

-----------------------------------------------------------------------------
(* Properties of passing checks, default arguments and evaluation counts. *)

C22_ReportsNotInterleaved ==
    /\ \A t \in Threads :
          Len(threads[t].wrote) = 2 => threads[t].wrote[2] = threads[t].wrote[1] + 1
    /\ Terminated => \A t \in Threads : Len(threads[t].wrote) \in {0, 2}

\* C23: omitted arguments take their defaults: every step that KASSERT(e)
\* can take is a step of KASSERT(e, "", 30) and conversely, every step of
\* KASSERT(e, m) is a step of KASSERT(e, m, 30) and conversely, and every
\* step of THROWING_KASSERT(e) is a step of THROWING_KASSERT(e, "") and
\* conversely; so gating, verdict, report and outcome are the same.
C23_OmittedArgumentsDefault ==
    [][(pc = "idle" /\ chk'.form # "none")
          => LET e == chk'.expr
             IN  /\ KASSERT_1(e) <=> KASSERT(e, "", 30)
                 /\ \A m \in Msgs \cup {""} : KASSERT_2(e, m) <=> KASSERT(e, m, 30)
                 /\ THROWING_KASSERT_1(e) <=> THROWING_KASSERT(e, "")]_vars

C23_Witness ==
    /\ IsKassert
    /\ chk.msg = ""
    /\ chk.level = 30
    /\ chk.level <= KASSERT_ASSERTION_LEVEL
    /\ pc = "aborted"
    /\ Len(sink) = 2
    /\ sink[2] = "\n"

\* C24: Logger buffering.  After any calls of operator<<, flush(), stream()
\* and the destructor, the text the underlying stream has received followed
\* by the text in the buffer is the text of the streamed values in order, each
\* once; a flush(), stream() or destruction leaves the buffer empty, so
\* destruction leaves nothing unwritten; operator<< never writes to the
\* underlying stream; and a flush() right after a flush() adds nothing.
C24_LoggerBuffering ==
    /\ [](logger.last # "none"
            => /\ Concat(sink) \o logger.buffer = logger.streamed
               /\ logger.last \in {"flush", "stream", "dtor"} => logger.buffer = ""
               /\ ~logger.alive => Concat(sink) = logger.streamed)
    /\ [][logger'.last = "<<" => sink' = sink]_vars
    /\ [][(logger.last = "flush" /\ logger'.last = "flush")
             => Concat(sink') = Concat(sink)]_vars

C24_Witness ==
    /\ logger.last = "dtor"
    /\ logger.streamed = "1true(1, 2)"
    /\ sink = <<"1true", "(1, 2)">>

\* C25: finalize_expr on what Decomposer{} <= expression yields: a raw boolean
\* is returned as it is; a Binary node is returned as it is (same result(),
\* same rendering); a pending-left wrapper of an operand v becomes a Unary
\* node whose result() is bool(v) and whose rendering is the rendering of v;
\* and finalize_expr applied to its own output (a boolean, a Binary or a Unary
\* node) returns that output.
C25_FinalizeIsPassThrough ==
    (IsKassert /\ result # "none")
       => LET d == Decompose(chk.expr).val
              f == finalize_expr(d)
          IN  /\ d.ty = "bool" => f = d
              /\ d.ty = "Bin"
                    => /\ f = d
                       /\ Expression_result(f) = d.result
                       /\ stringify_value(f) = stringify_value(d)
              /\ d.ty = "Lhs"
                    => /\ f.ty = "Unary"
                       /\ Expression_result(f) = ToBool(d.lhs)
                       /\ stringify_value(f) = stringify_value(d.lhs)
              /\ d.ty \in {"bool", "Bin", "Lhs"}
              /\ finalize_expr(f) = f
              /\ expanded <=> (f.ty \in {"Unary", "Bin"})

C25_Witness ==
    /\ IsKassert
    /\ chk.expr.xs = <<IntV(2)>>
    /\ finalize_expr(finalize_expr(Decompose(chk.expr).val)) = UnaryExpression(IntV(2))
    /\ result = "pass"
    /\ expanded

\* C26: only &, |, ^, == and != extend a Binary node into a deeper chain; a
\* relational operator folds only as the first operator after the bare
\* initial operand.  In a < b < c (both operators relational) the Binary node
\* of a < b is reduced to its boolean result: the check is not expanded, its
\* verdict is that of the built-in comparison of that boolean with c, and a
\* failing report has no `with expansion:` line.
C26_RelationalDoesNotChain ==
    (IsKassert /\ result # "none")
       => LET d == Decompose(chk.expr).val
              xs == chk.expr.xs
              os == chk.expr.os
          IN  /\ (d.ty = "Bin" /\ d.lhs.ty = "Bin")
                    => d.op \in {"&", "|", "^", "==", "!="}
              /\ (d.ty = "Bin" /\ d.op \in {"<", "<=", ">", ">="})
                    => d.lhs.ty \in {"int", "bool"}
              /\ (Len(os) = 2 /\ os[1] \in {"<", "<=", ">", ">=", "==", "!=", "&", "|", "^"}
                    /\ os[2] \in {"&", "|", "^", "==", "!="} /\ Prec(os[2]) >= Prec(os[1]))
                    => (d.ty = "Bin" /\ d.lhs.ty = "Bin" /\ expanded)
              /\ (Len(os) = 2 /\ os[1] \in {"<", "<=", ">", ">="}
                    /\ os[2] \in {"<", "<=", ">", ">="})
                    => /\ d.ty = "bool"
                       /\ ~expanded
                       /\ (result = "pass")
                             <=> ToBool(BuiltinOp(os[2],
                                          BoolV(ToBool(BuiltinOp(os[1], xs[1], xs[2]))),
                                          xs[3]))
                       /\ pc \in AbortPcs
                             => sink[1] = "test.cpp: In function 'void f()':\n"
                                          \o "test.cpp:42: FAILED ASSERTION\n"
                                          \o "\t" \o ExprText(chk.expr) \o "\n"

C26_Witness ==
    /\ IsKassert
    /\ chk.expr = [xs |-> <<IntV(2), IntV(1), IntV(0)>>, os |-> <<"<", "<">>]
    /\ pc = "aborted"
    /\ sink = <<"test.cpp: In function 'void f()':\ntest.cpp:42: FAILED ASSERTION\n\ta < b < c\n",
                "oops\n">>

\* C27: an operand sub-expression that binds tighter than the captured
\* operator (a negation !x, a sum x + 1) is reduced to its value before it is
\* captured and is rendered as that value, and a boolean is rendered as the
\* word true or false, never as 1 or 0: a failing KASSERT(!lhs == rhs) renders
\* `<bool of !lhs> == <rhs>` and does not show lhs.
C27_TighterOperandsRenderAsValues ==
    (IsKassert /\ pc \in AbortPcs /\ Len(chk.expr.xs) = 2
        /\ chk.expr.os[1] \notin {"&&", "||"})
       => LET Rendered(x) ==
                  CASE x.ty = "not"  -> (IF x.of.v = 0 THEN "true" ELSE "false")
                    [] x.ty = "plus" -> ToString(x.of.v + x.n)
                    [] x.ty = "bool" -> (IF x.v = 0 THEN "false" ELSE "true")
                    [] OTHER         -> ToString(x.v)
              l == chk.expr.xs[1]
              r == chk.expr.xs[2]
          IN  /\ expanded
              /\ sink[1] = "test.cpp: In function 'void f()':\n"
                           \o "test.cpp:42: FAILED ASSERTION\n"
                           \o "\t" \o ExprText(chk.expr) \o "\n"
                           \o "with expansion:\n"
                           \o "\t" \o Rendered(l) \o " " \o chk.expr.os[1] \o " "
                           \o Rendered(r) \o "\n"
              /\ l.ty = "not" => Rendered(l) \notin {ToString(l.of.v), "0", "1"}

C27_Witness ==
    /\ IsKassert
    /\ chk.expr = [xs |-> <<NotV(IntV(1)), IntV(2)>>, os |-> <<"==">>]
    /\ pc = "aborted"
    /\ sink = <<"test.cpp: In function 'void f()':\ntest.cpp:42: FAILED ASSERTION\n\t!a == b\nwith expansion:\n\tfalse == 2\n",
                "oops\n">>

\* C28: a failing KASSERT(v) on a single operand without a captured operator,
\* v a value or a fully parenthesised expression, goes through the
\* Expression-node path: its report has the `with expansion:` line followed
\* by the rendering of v (0, false); a failing top-level && / || expression
\* has no expansion.
C28_SingleOperandIsExpanded ==
    (IsKassert /\ pc \in AbortPcs)
       => LET v == chk.expr.xs[1]
              raw == "test.cpp: In function 'void f()':\n"
                     \o "test.cpp:42: FAILED ASSERTION\n"
                     \o "\t" \o ExprText(chk.expr) \o "\n"
          IN  /\ Len(chk.expr.xs) = 1
                    => /\ expanded
                       /\ sink[1] = raw \o "with expansion:\n" \o "\t"
                                    \o (IF v.ty = "int" THEN ToString(v.v) ELSE "false")
                                    \o "\n"
              /\ (Len(chk.expr.xs) = 2 /\ chk.expr.os[1] \in {"&&", "||"})
                    => /\ ~expanded
                       /\ sink[1] = raw

C28_Witness ==
    /\ IsKassert
    /\ chk.expr.xs = <<ParenV([xs |-> <<IntV(1), IntV(0)>>, os |-> <<"&&">>])>>
    /\ pc = "aborted"
    /\ sink = <<"test.cpp: In function 'void f()':\ntest.cpp:42: FAILED ASSERTION\n\t(a && b)\nwith expansion:\n\tfalse\n",
                "oops\n">>

C30_EveryOperandOnce ==
    (chk.form # "none" /\ result # "none")
       => \A i \in 1..Len(chk.expr.xs) : evals[i] = 1

\* C30, amended: a check that tests its expression evaluates no operand more
\* than once, in any state up to the abort or the throw; it evaluates the
\* first operand once, and every operand once when the expression has no &&
\* and no ||; an operand is left unevaluated only to the right of an && or ||.
\* A Binary node stores its operator's result, and the verdict is that stored
\* result.
C30_NoOperandTwice ==
    (chk.form # "none" /\ result # "none")
       => /\ \A i \in 1..Len(chk.expr.xs) : evals[i] \in {0, 1}
          /\ evals[1] = 1
          /\ \A i \in 1..Len(chk.expr.xs) :
                evals[i] = 0 => \E j \in 1..(i - 1) : chk.expr.os[j] \in {"&&", "||"}
          /\ IsKassert
                => LET d == Decompose(chk.expr).val
                   IN  d.ty = "Bin" => ((result = "pass") <=> d.result)

C30_Witness ==
    /\ IsKassert
    /\ chk.expr = [xs |-> <<IntV(0), IntV(1)>>, os |-> <<"&&">>]
    /\ evals = <<1, 0>>
    /\ pc = "aborted"

=============================================================================
